---------------------------- MODULE Spec2Model ----------------------------
(***************************************************************************)
(* Cross-Coach: the correlation-and-insight engines of the backend.        *)
(*                                                                         *)
(* Three engines turn a user's log entries into CorrelationInsight rows:   *)
(*   - the on-demand engine, scripts/correlation_analysis.py               *)
(*     (run_correlation_analysis, behind POST /analyze-correlations);      *)
(*   - the weekly service, analytics/correlation_service.py                *)
(*     (CorrelationService.run_weekly_analysis, run by the scheduler);     *)
(*   - the worker, analytics/worker.py (run_once).                         *)
(*                                                                         *)
(* Numbers.  A log value is a small integer.  A cell of a metric table     *)
(* holds the mean of the points logged for it, kept in units of 1/Scale so *)
(* that it stays an integer.  A Pearson coefficient r is kept exactly, as  *)
(* its sign s and the reduced fraction p/q = r^2 (r = s * sqrt(p/q)); the  *)
(* "not a number" result of a constant input is a value of its own.  A     *)
(* p-value is an integer number of thousandths.                            *)
(***************************************************************************)
EXTENDS Integers, Sequences, FiniteSets, TLC

(***************************************************************************)
(* Bounds of the model.                                                    *)
(***************************************************************************)
MaxDate == 5         \* log dates are 1 .. MaxDate; "today" is MaxDate
MaxVal == 2          \* logged values are 1 .. MaxVal
MaxDup == 2          \* at most MaxDup points on one (date, metric) cell

(***************************************************************************)
(* Constants of the program.                                               *)
(***************************************************************************)
MinOverlapScript == 3    \* calculate_correlations: len(common_dates) < 3
MinOverlapService == 5   \* CorrelationService: len(clean_data) < 5
MinOverlapWorker == 3    \* worker.compute_correlations: len(pairs) < 3
WorkerWindowDays == 7    \* worker.run_once: range(7), start = end - 6 days
ServiceDaysBack == 90    \* get_user_data_as_dataframe: days_back = 90
TopN == 3                \* select_top_correlations: top_n = 3

Dates == 1 .. MaxDate
Values == 1 .. MaxVal
Today == MaxDate

(***************************************************************************)
(* Integer helpers.                                                        *)
(***************************************************************************)
Abs(x) == IF x < 0 THEN -x ELSE x

Sign(x) == IF x > 0 THEN 1 ELSE IF x < 0 THEN -1 ELSE 0

RECURSIVE Gcd(_, _)
Gcd(a, b) == IF b = 0 THEN a ELSE Gcd(b, a % b)

Lcm(a, b) == (a * b) \div Gcd(a, b)

RECURSIVE LcmUpTo(_)
LcmUpTo(n) == IF n <= 1 THEN 1 ELSE Lcm(n, LcmUpTo(n - 1))

\* the unit of a table cell is 1/Scale: every mean of at most MaxDup integers
\* is a whole number of units
Scale == LcmUpTo(MaxDup)

RECURSIVE SumSeq(_)
SumSeq(s) == IF s = <<>> THEN 0 ELSE Head(s) + SumSeq(Tail(s))

RECURSIVE SetToSeq(_)
SetToSeq(S) ==
  IF S = {} THEN <<>>
  ELSE LET x == CHOOSE y \in S : TRUE IN <<x>> \o SetToSeq(S \ {x})

RECURSIVE SumOver(_, _)
\* the sum of f[x] over the finite set S
SumOver(f, S) ==
  IF S = {} THEN 0
  ELSE LET x == CHOOSE y \in S : TRUE IN f[x] + SumOver(f, S \ {x})

RECURSIVE ISqrt(_)
\* floor of the square root
ISqrt(n) ==
  IF n < 2 THEN n
  ELSE LET s == 2 * ISqrt(n \div 4)
       IN IF (s + 1) * (s + 1) <= n THEN s + 1 ELSE s

RECURSIVE Pow10(_)
Pow10(k) == IF k = 0 THEN 1 ELSE 10 * Pow10(k - 1)

RECURSIVE LongDiv(_, _, _)
\* floor(10^k * a / b) for a >= 0 and b > 0, by long division: no product
\* larger than 10 * b is formed
LongDiv(a, b, k) ==
  IF k = 0 THEN a \div b
  ELSE (a \div b) * Pow10(k) + LongDiv((a % b) * 10, b, k - 1)

(***************************************************************************)
(* Pearson coefficients.  Corr(s, p, q) is r = s * sqrt(p / q) with p/q    *)
(* reduced; NaN is what numpy/scipy return for a constant input.           *)
(***************************************************************************)
NaN == [nan |-> TRUE, s |-> 0, p |-> 0, q |-> 1]

Corr(s, p, q) ==
  IF p = 0 \/ s = 0 THEN [nan |-> FALSE, s |-> 0, p |-> 0, q |-> 1]
  ELSE LET g == Gcd(p, q)
       IN [nan |-> FALSE, s |-> s, p |-> p \div g, q |-> q \div g]

isnan(c) == c.nan

\* r^2 > ppm / 10^6, exactly; every comparison with NaN is false
Sq_gt(c, ppm) ==
  /\ ~c.nan
  /\ LET f == LongDiv(c.p, c.q, 6)
     IN \/ f > ppm
        \/ f = ppm /\ 1000000 % c.q # 0

\* abs(a) > abs(b)
Abs_gt(a, b) == ~a.nan /\ ~b.nan /\ a.p * b.q > b.p * a.q

\* a > 0, a < 0
Positive(c) == ~c.nan /\ c.s = 1
Negative(c) == ~c.nan /\ c.s = -1

\* round(1000 * abs(r)): the digits that "{:.3f}" of r and "{:.1f}" of
\* abs(r) * 100 print
Milli(c) == (ISqrt(LongDiv(4 * c.p, c.q, 6)) + 1) \div 2

\* round(100 * abs(r)): the digits that "{:.2f}" prints
Centi(c) == (ISqrt(LongDiv(4 * c.p, c.q, 4)) + 1) \div 2

(***************************************************************************)
(* Log entries (models.LogEntry).  The metric keys that the model logs,    *)
(* listed in the lexical order of domain + "_" + metric, which is the      *)
(* column order of a pandas pivot table.                                   *)
(***************************************************************************)
Key(domain, metric) == [domain |-> domain, metric |-> metric]

ClimbingGrade == Key("climbing", "grade")
FitnessRun == Key("fitness", "run")
LearningPages == Key("learning", "pages")
OtherLegacy == Key("other", "legacy_metric")         \* create_log
ReflectionJournal == Key("reflection", "journal_entry")  \* create_journal_entry
SleepHours == Key("sleep", "hours")
SleepQuality == Key("sleep", "quality")

Metrics ==
  << ClimbingGrade, FitnessRun, LearningPages, OtherLegacy,
     ReflectionJournal, SleepHours, SleepQuality >>

MetricKeys == {Metrics[i] : i \in DOMAIN Metrics}

KeyRank(k) == CHOOSE i \in DOMAIN Metrics : Metrics[i] = k

\* a stored log.  `given` is not a column: it records whether the request
\* that created the log carried a value
LogEntry ==
  [date : Dates, domain : {k.domain : k \in MetricKeys},
   metric : {k.metric : k \in MetricKeys}, value : {0} \cup Values,
   id : 1 .. MaxDup, given : BOOLEAN]

\* df['domain'] + '_' + df['metric']
domain_metric(log) == [domain |-> log.domain, metric |-> log.metric]

\* a metric table: the dates of its index, its columns in order, and the
\* cells that hold a value (a missing cell is outside DOMAIN cells)
Table(index, columns, cells) ==
  [index |-> index, columns |-> columns, cells |-> cells]

HasCell(t, d, k) == <<d, k>> \in DOMAIN t.cells

\* aggfunc='mean' over the points of one cell, in units of 1/Scale
MeanOf(points) ==
  (Scale * SumOver([l \in points |-> l.value], points)) \div Cardinality(points)

\* the keys of a set, as a sequence in column order
SortedKeys(keys) ==
  LET n == Cardinality(keys)
      pos(k) == Cardinality({j \in keys : KeyRank(j) < KeyRank(k)}) + 1
  IN [i \in 1 .. n |-> CHOOSE k \in keys : pos(k) = i]

\* df.pivot_table(index='date', columns=key, values='value', aggfunc='mean')
pivot_table(df) ==
  LET cellsOf == {<<l.date, domain_metric(l)>> : l \in df}
  IN Table({l.date : l \in df},
           SortedKeys({domain_metric(l) : l \in df}),
           [c \in cellsOf |->
              MeanOf({l \in df : l.date = c[1] /\ domain_metric(l) = c[2]})])

(***************************************************************************)
(* scipy.stats.pearsonr over the dates in `common` of two columns.         *)
(***************************************************************************)
\* the p-value is a decreasing function of abs(r) for a given sample size:
\* p < alpha exactly when abs(r) exceeds the critical value of alpha.  The
\* squares of the critical values, in millionths (n = 4: (1 - alpha)^2,
\* exactly, because p = 1 - abs(r) there).
CritSq05 ==
  [n \in 3 .. 8 |->
     CASE n = 3 -> 993844 [] n = 4 -> 902500 [] n = 5 -> 771480
       [] n = 6 -> 658372 [] n = 7 -> 569258 [] n = 8 -> 499473]

CritSq01 ==
  [n \in 3 .. 8 |->
     CASE n = 3 -> 999753 [] n = 4 -> 980100 [] n = 5 -> 919172
       [] n = 6 -> 841255 [] n = 7 -> 764796 [] n = 8 -> 696125]

\* p-values are thousandths; PNaN is the p-value of a NaN coefficient
PNaN == 0 - 1

\* the p-value of coefficient c on n samples, rounded down to the levels the
\* program reads it at (0.01 and 0.05)
PValue(n, c) ==
  IF c.nan THEN PNaN
  ELSE IF Sq_gt(c, CritSq01[n]) THEN 0
  ELSE IF Sq_gt(c, CritSq05[n]) THEN 10
  ELSE 50

\* p < t thousandths; false for NaN
P_lt(p, t) == p # PNaN /\ p < t

\* x and y: functions over `common`
PearsonR(x, y, common) ==
  LET n == Cardinality(common)
      sx == SumOver(x, common)
      sy == SumOver(y, common)
      sxx == SumOver([d \in common |-> x[d] * x[d]], common)
      syy == SumOver([d \in common |-> y[d] * y[d]], common)
      sxy == SumOver([d \in common |-> x[d] * y[d]], common)
      num == n * sxy - sx * sy
      vx == n * sxx - sx * sx
      vy == n * syy - sy * sy
  IN IF vx = 0 \/ vy = 0 THEN NaN ELSE Corr(Sign(num), num * num, vx * vy)

pearsonr(x, y, common) ==
  LET r == PearsonR(x, y, common)
  IN [r |-> r, p |-> PValue(Cardinality(common), r)]

(***************************************************************************)
(* Sequence helpers.                                                       *)
(***************************************************************************)
RECURSIVE Flatten(_)
\* the concatenation of a sequence of sequences
Flatten(ss) == IF ss = <<>> THEN <<>> ELSE Head(ss) \o Flatten(Tail(ss))

\* every pair of indices of 1 .. n, in either order and with itself
EveryPairSeq(n) == [m \in 1 .. n * n |-> <<((m - 1) \div n) + 1, ((m - 1) % n) + 1>>]

\* the index pairs i < j of 1 .. n, in the order of the nested loops
\* "for i ...: for j > i ..."
PairSeq(n) ==
  LET P == {ij \in (1 .. n) \X (1 .. n) : ij[1] < ij[2]}
      before(a, b) == a[1] < b[1] \/ (a[1] = b[1] /\ a[2] < b[2])
  IN [m \in 1 .. Cardinality(P) |->
        CHOOSE a \in P : Cardinality({b \in P : before(b, a)}) = m - 1]

Range(f) == {f[x] : x \in DOMAIN f}

(***************************************************************************)
(* The on-demand engine: scripts/correlation_analysis.py.                  *)
(***************************************************************************)
\* db.query(LogEntry).filter(LogEntry.user_id == user_id).all(): every log
\* of the user, whatever its date
fetch_user_logs(userLogs) == userLogs

group_logs_by_domain_metric(df) == pivot_table(df)

\* df[metric].dropna(): the dates on which the column holds a value
dropna(df, k) == {d \in df.index : HasCell(df, d, k)}

Column(df, k) == [d \in dropna(df, k) |-> df.cells[<<d, k>>]]

\* one iteration of the double loop of calculate_correlations
ScriptPair(df, metric1, metric2) ==
  LET common_dates == dropna(df, metric1) \cap dropna(df, metric2)
      res == pearsonr(Column(df, metric1), Column(df, metric2), common_dates)
  IN IF Cardinality(common_dates) < MinOverlapScript THEN <<>>
     ELSE IF isnan(res.r) THEN <<>>
     ELSE << [metric1 |-> metric1, metric2 |-> metric2,
              correlation |-> res.r, p_value |-> res.p,
              n_samples |-> Cardinality(common_dates)] >>

calculate_correlations(df) ==
  LET pairs == PairSeq(Len(df.columns))
  IN Flatten([m \in DOMAIN pairs |->
       ScriptPair(df, df.columns[pairs[m][1]], df.columns[pairs[m][2]])])

(***************************************************************************)
(* The weekly service: analytics/correlation_service.py.                   *)
(***************************************************************************)
\* select(LogEntry).where(user_id == ..., date >= cutoff_date)
get_user_data_as_dataframe(userLogs) ==
  {l \in userLogs : l.date >= Today - ServiceDaysBack}

\* .fillna(method='ffill').fillna(0): a missing cell takes the value of the
\* latest earlier date of its column, and 0 when there is none
ffill_fillna0(t) ==
  LET filled(d, k) ==
        LET earlier == {e \in t.index : e <= d /\ HasCell(t, e, k)}
        IN IF earlier = {} THEN 0
           ELSE t.cells[<<CHOOSE e \in earlier : \A f \in earlier : f <= e, k>>]
  IN Table(t.index, t.columns,
           [c \in t.index \X Range(t.columns) |-> filled(c[1], c[2])])

ServicePivot(df) == ffill_fillna0(pivot_table(df))

\* strength and direction of _generate_correlation_description
Strength(c) ==
  IF Sq_gt(c, 490000) THEN "strong"
  ELSE IF Sq_gt(c, 250000) THEN "moderate" ELSE "weak"

Direction(c) == IF Positive(c) THEN "positive" ELSE "negative"

\* f"{strength.title()} {direction} correlation ({corr_coef:.2f}) between ..."
generate_correlation_description(metric1, metric2, corr_coef) ==
  [format |-> "service", strength |-> Strength(corr_coef),
   direction |-> Direction(corr_coef), sign |-> corr_coef.s,
   digits |-> Centi(corr_coef), metric1 |-> metric1, metric2 |-> metric2]

\* one iteration of the double loop of CorrelationService.compute_correlations
ServicePair(pivot_df, col1, col2) ==
  LET clean_data == {d \in pivot_df.index :
                       HasCell(pivot_df, d, col1) /\ HasCell(pivot_df, d, col2)}
      res == pearsonr(Column(pivot_df, col1), Column(pivot_df, col2), clean_data)
  IN IF Cardinality(clean_data) < MinOverlapService THEN <<>>
     ELSE IF P_lt(res.p, 50) /\ Sq_gt(res.r, 90000)
     THEN << [metric1 |-> col1, metric2 |-> col2,
              correlation_coefficient |-> res.r, p_value |-> res.p,
              data_points |-> Cardinality(clean_data),
              description |->
                generate_correlation_description(col1, col2, res.r)] >>
     ELSE <<>>

Service_compute_correlations(userLogs) ==
  LET df == get_user_data_as_dataframe(userLogs)
      pivot_df == ServicePivot(df)
      pairs == PairSeq(Len(pivot_df.columns))
  IN IF df = {} THEN <<>>
     ELSE IF Len(pivot_df.columns) < 2 THEN <<>>
     ELSE Flatten([m \in DOMAIN pairs |->
            ServicePair(pivot_df, pivot_df.columns[pairs[m][1]],
                        pivot_df.columns[pairs[m][2]])])

(***************************************************************************)
(* The worker: analytics/worker.py.                                        *)
(***************************************************************************)
WorkerStart == Today - (WorkerWindowDays - 1)

\* select(LogEntry).where(user_id == ..., date >= start, date <= end)
WorkerLogs(userLogs) ==
  {l \in userLogs : l.date >= WorkerStart /\ l.date <= Today}

WorkerCells(logs) == {<<l.date, l.domain>> : l \in logs}

\* The query has no ORDER BY, so the rows come in an order the database
\* chooses.  The loop "domain_to_values.setdefault(domain, {})[date] =
\* float(value)" keeps, for each (date, domain), the value of the row that
\* comes last: `last` names that row for every cell.
RECURSIVE RowChoices(_, _)
\* the functions that map every cell of `cells` to one of its rows
RowChoices(cells, logs) ==
  IF cells = {} THEN {<<>>}
  ELSE LET c == CHOOSE x \in cells : TRUE
       IN {f @@ (c :> l) :
             f \in RowChoices(cells \ {c}, logs),
             l \in {m \in logs : m.date = c[1] /\ m.domain = c[2]}}

LastRowChoices(logs) == RowChoices(WorkerCells(logs), logs)

domain_to_values(logs, last, domains) ==
  Table({l.date : l \in logs}, domains,
        [c \in WorkerCells(logs) |-> Scale * last[c].value])

\* list(domain_to_values.keys()): the domains in the order of their first
\* row, which is again the database's choice
DomainOrders(logs) ==
  LET D == {l.domain : l \in logs}
  IN {q \in [1 .. Cardinality(D) -> D] : Range(q) = D}

\* compute_correlations(pairs) of worker.py: <<>> stands for None
Worker_compute_correlations(x, y, pairs) ==
  LET r == PearsonR(x, y, pairs)
  IN IF Cardinality(pairs) < MinOverlapWorker THEN <<>>
     ELSE IF isnan(r) THEN <<>>      \* np.std(x) == 0 or np.std(y) == 0
     ELSE <<r>>

WorkerPair(dtv, d1, d2) ==
  LET pairs == {d \in WorkerStart .. Today :
                  HasCell(dtv, d, d1) /\ HasCell(dtv, d, d2)}
      r == Worker_compute_correlations(Column(dtv, d1), Column(dtv, d2), pairs)
  IN IF r = <<>> THEN <<>>
     ELSE << [d1 |-> d1, d2 |-> d2, correlation_score |-> r[1]] >>

\* the dict `correlations` of run_once, in insertion order
WorkerCorrelations(dtv) ==
  LET pairs == PairSeq(Len(dtv.columns))
  IN Flatten([m \in DOMAIN pairs |->
       WorkerPair(dtv, dtv.columns[pairs[m][1]], dtv.columns[pairs[m][2]])])

(***************************************************************************)
(* Selection and rendering of the on-demand engine.                        *)
(***************************************************************************)
RECURSIVE Filter(_, _)
\* the subsequence of the records that test[r] holds of
Filter(seq, test) ==
  IF seq = <<>> THEN <<>>
  ELSE (IF test[Head(seq)] THEN <<Head(seq)>> ELSE <<>>)
       \o Filter(Tail(seq), test)

\* insert c into a list sorted by descending abs(correlation), after every
\* record that is not smaller: list.sort is stable
InsertDesc(c, sorted) ==
  LET k == Cardinality({i \in DOMAIN sorted :
                          ~Abs_gt(c.correlation, sorted[i].correlation)})
  IN SubSeq(sorted, 1, k) \o <<c>> \o SubSeq(sorted, k + 1, Len(sorted))

\* a list left in the order it came in
Unsorted(xs) == xs

RECURSIVE SortByAbsDesc(_)
\* xs.sort(key=lambda x: abs(x['correlation']), reverse=True)
SortByAbsDesc(xs) ==
  IF xs = <<>> THEN <<>>
  ELSE InsertDesc(xs[Len(xs)], SortByAbsDesc(SubSeq(xs, 1, Len(xs) - 1)))

Take(xs, n) == SubSeq(xs, 1, IF Len(xs) < n THEN Len(xs) ELSE n)

\* a selection that filters nothing: every record in both lists
SelectAll(correlations, top_n) ==
  [positive |-> Take(correlations, top_n), negative |-> Take(correlations, top_n)]

select_top_correlations(correlations, top_n) ==
  LET S == Range(correlations)
      significant == Filter(correlations, [c \in S |-> P_lt(c.p_value, 50)])
      positive == Filter(significant, [c \in S |-> Positive(c.correlation)])
      negative == Filter(significant, [c \in S |-> Negative(c.correlation)])
  IN [positive |-> Take(SortByAbsDesc(positive), top_n),
      negative |-> Take(SortByAbsDesc(negative), top_n)]

\* generate_insight_text: the sentence, as the template the code picks with
\* what it substitutes, and the significance note it appends
generate_insight_text(c) ==
  LET same == c.metric1.domain = c.metric2.domain
      template ==
        IF Positive(c.correlation)
        THEN IF same
             THEN "{M1} and {m2} show a strong positive correlation ({pct}% relationship)"
             ELSE "Higher {m1} in {d1} is associated with better {m2} in {d2} ({pct}% correlation)"
        ELSE IF same
             THEN "{M1} and {m2} show a strong negative correlation ({pct}% inverse relationship)"
             ELSE "Higher {m1} in {d1} is associated with lower {m2} in {d2} ({pct}% inverse correlation)"
      note ==
        IF P_lt(c.p_value, 10) THEN " (highly significant)"
        ELSE IF P_lt(c.p_value, 50) THEN " (significant)" ELSE ""
  IN [format |-> "script", template |-> template,
      metric1 |-> c.metric1, metric2 |-> c.metric2,
      digits |-> Milli(c.correlation), note |-> note]

\* f"Correlation between {d1} and {d2}: {correlation_score:.3f}"
WorkerDescription(c) ==
  [format |-> "worker", d1 |-> c.d1, d2 |-> c.d2,
   sign |-> c.correlation_score.s, digits |-> Milli(c.correlation_score)]

(***************************************************************************)
(* CorrelationInsight rows (models.CorrelationInsight).                    *)
(***************************************************************************)
Insight(description, score) ==
  [description |-> description, correlation_score |-> score]

\* the rows that save_insights_to_db adds: the positive records, then the
\* negative ones
ScriptInsights(top) ==
  [i \in 1 .. Len(top.positive) |->
     Insight(generate_insight_text(top.positive[i]),
             top.positive[i].correlation)]
  \o [i \in 1 .. Len(top.negative) |->
        Insight(generate_insight_text(top.negative[i]),
                top.negative[i].correlation)]

\* the rows that save_correlation_insights adds
ServiceInsights(correlations) ==
  [i \in 1 .. Len(correlations) |->
     Insight(correlations[i].description,
             correlations[i].correlation_coefficient)]

\* the rows that run_once adds
WorkerInsights(correlations) ==
  [i \in 1 .. Len(correlations) |->
     Insight(WorkerDescription(correlations[i]),
             correlations[i].correlation_score)]

(***************************************************************************)
(* The three pipelines from a user's logs to the rows they store, with     *)
(* what they build on the way: the metric table the correlator reads, the  *)
(* records it emits, the rows, and for every row the coefficient, p-value  *)
(* and sample size of the record it renders.                               *)
(***************************************************************************)
NoAnalysis ==
  [engine |-> "none", table |-> Table({}, <<>>, <<>>), records |-> <<>>,
   rows |-> <<>>, source |-> <<>>]

Source(r, p, n) == [correlation |-> r, p_value |-> p, n_samples |-> n]

\* fetch_user_logs .. select_top_correlations of run_correlation_analysis
ScriptAnalysis(userLogs) ==
  LET pivoted_df == group_logs_by_domain_metric(fetch_user_logs(userLogs))
      correlations == calculate_correlations(pivoted_df)
      top == select_top_correlations(correlations, TopN)
      chosen == top.positive \o top.negative
  IN [engine |-> "script", table |-> pivoted_df, records |-> correlations,
      rows |-> ScriptInsights(top),
      source |-> [i \in DOMAIN chosen |->
                    Source(chosen[i].correlation, chosen[i].p_value,
                           chosen[i].n_samples)]]

\* compute_correlations and the rows of save_correlation_insights
ServiceAnalysis(userLogs) ==
  LET correlations == Service_compute_correlations(userLogs)
      df == get_user_data_as_dataframe(userLogs)
  IN [engine |-> "service",
      table |-> IF df = {} THEN NoAnalysis.table ELSE ServicePivot(df),
      records |-> correlations,
      rows |-> ServiceInsights(correlations),
      source |-> [i \in DOMAIN correlations |->
                    Source(correlations[i].correlation_coefficient,
                           correlations[i].p_value,
                           correlations[i].data_points)]]

\* the per-user body of run_once up to its db.add calls; the worker computes
\* no p-value, so the one of its coefficient and sample size is filled in
WorkerAnalysis(userLogs, last, domains) ==
  LET logs == WorkerLogs(userLogs)
      dtv == domain_to_values(logs, last, domains)
      correlations == WorkerCorrelations(dtv)
      n(c) == Cardinality(dropna(dtv, c.d1) \cap dropna(dtv, c.d2))
  IN [engine |-> "worker", table |-> dtv, records |-> correlations,
      rows |-> WorkerInsights(correlations),
      source |-> [i \in DOMAIN correlations |->
                    Source(correlations[i].correlation_score,
                           PValue(n(correlations[i]),
                                  correlations[i].correlation_score),
                           n(correlations[i]))]]

(***************************************************************************)
(* State.                                                                  *)
(***************************************************************************)
VARIABLES
  logs,          \* log_entries: the log entries of every user
  insights,      \* correlation_insights, committed: the rows of every user
  analysis,      \* the pipeline last applied to the logs of user 1
  correlations,  \* the argument of the last select_top_correlations call
  selected,      \* its result
  sess,          \* the database session of each process, and its run
  clock,         \* the number of runs started: the time of created_at
  lastRun,       \* what the last finished run was and left behind
  summaryCall    \* the last call of a summarization function: its result

vars ==
  <<logs, insights, analysis, correlations, selected, sess, clock, lastRun,
    summaryCall>>

\* what the pipelines applied by themselves leave alone, and what the runs
\* against the database leave alone
db == <<insights, sess, clock, lastRun>>
pure == <<analysis, correlations, selected, summaryCall>>

\* no summarization function has been called
NoSummary == [caller |-> "none"]

NumUsers == 2         \* bound: the users are 1 .. NumUsers
MaxRuns == 2          \* bound: at most MaxRuns runs are started
MaxFaults == 1        \* bound: at most MaxFaults commits fail

\* select_top_correlations has not been called
NotSelected == [called |-> FALSE, positive |-> <<>>, negative |-> <<>>]

Users == 1 .. NumUsers

(***************************************************************************)
(* Processes and their SQLAlchemy sessions.  "api" serves POST             *)
(* /analyze-correlations; "job" runs a batch (the weekly analysis of the   *)
(* scheduler, or the worker).  A session holds what its open transaction   *)
(* has changed: the rows its DELETE removed and the rows added to it; the  *)
(* committed table changes when the transaction commits, and only then.    *)
(***************************************************************************)
Procs == {"api", "job"}

Idle ==
  [pc |-> "idle",        \* idle, delete, commit, next, returned
   response |-> 0,       \* the HTTP status answered to the caller, 0: none
   body |-> <<>>,        \* the counts in the body of a 200 answer
   kind |-> "none",      \* none, ondemand, weekly, worker
   user |-> 0,           \* the user being processed
   order |-> <<>>,       \* the users of a batch, as enumerated
   queue |-> <<>>,       \* those not started yet
   rows |-> <<>>,        \* the insights computed for the user
   deleted |-> {},       \* the rows the transaction has deleted
   txn |-> "none",       \* the session's transaction: none, active, prepared
   faulted |-> {},       \* the users whose commit failed in the database
   raised |-> {},        \* the users whose processing raised an exception
   summary |-> {},       \* <<user, outcome>> of the summarization calls
   handle |-> "unbound", \* the local variable db: unbound, open, closed
   carried |-> {},       \* <<user, rows>>: DELETEs of failed turns, pending
   done |-> {},          \* the users whose rows were committed
   before |-> <<>>,      \* the stored insights when the run started
   outcome |-> "none"]   \* ok (returned), error (raised), crashed

NoRun == [kind |-> "none", clean |-> FALSE, after |-> <<>>]

(***************************************************************************)
(* Log sets.  Metric 1 is logged on the dates 1 .. a and cycles through    *)
(* the values; metric 2 is logged on the dates b .. MaxDate with any       *)
(* values; the first date of metric 1 may carry further points.            *)
(***************************************************************************)
Entry(d, k, v, i) ==
  [date |-> d, domain |-> k.domain, metric |-> k.metric, value |-> v, id |-> i,
   given |-> TRUE]

Cycle(d) == ((d - 1) % MaxVal) + 1

SeriesA(a) == {Entry(d, FitnessRun, Cycle(d), 1) : d \in 1 .. a}

SeriesB(b, f) == {Entry(d, SleepHours, f[d], 1) : d \in b .. MaxDate}

\* further points on date 1 of metric 1: ids 2 .. k, values not decreasing
ExtraPoints ==
  UNION {{ {Entry(1, FitnessRun, g[i], i) : i \in 2 .. k} :
            g \in {h \in [2 .. k -> Values] :
                     \A i \in 2 .. k - 1 : h[i] <= h[i + 1]} } :
         k \in 1 .. MaxDup}

LogSet(a, b, f, x) ==
  SeriesA(a) \cup SeriesB(b, f) \cup (IF a >= 1 THEN x ELSE {})

(***************************************************************************)
(* SpecCorr: the pipelines as functions of the logs of one user.           *)
(***************************************************************************)
InitCorr ==
  /\ \E a \in 0 .. MaxDate, b \in 1 .. MaxDate + 1 :
       \E f \in [b .. MaxDate -> Values], x \in ExtraPoints :
         logs = [u \in Users |-> IF u = 1 THEN LogSet(a, b, f, x) ELSE {}]
  /\ insights = [u \in Users |-> <<>>]
  /\ sess = [p \in Procs |-> Idle]
  /\ clock = 0
  /\ lastRun = NoRun
  /\ analysis = NoAnalysis
  /\ correlations = <<>>
  /\ selected = NotSelected
  /\ summaryCall = NoSummary

ApplyScript ==
  /\ analysis.engine = "none"
  /\ logs[1] # {}                    \* fetch_user_logs raises on no logs
  /\ analysis' = ScriptAnalysis(logs[1])
  /\ UNCHANGED <<logs, correlations, selected, db, summaryCall>>

ApplyService ==
  /\ analysis.engine = "none"
  /\ analysis' = ServiceAnalysis(logs[1])
  /\ UNCHANGED <<logs, correlations, selected, db, summaryCall>>

ApplyWorker ==
  /\ analysis.engine = "none"
  /\ \E last \in LastRowChoices(WorkerLogs(logs[1])),
        domains \in DomainOrders(WorkerLogs(logs[1])) :
       analysis' = WorkerAnalysis(logs[1], last, domains)
  /\ UNCHANGED <<logs, correlations, selected, db, summaryCall>>

NextCorr == ApplyScript \/ ApplyService \/ ApplyWorker

SpecCorr == InitCorr /\ [][NextCorr]_vars

(***************************************************************************)
(* Properties of the pipelines (SpecCorr).                                 *)
(***************************************************************************)
\* the logs an engine reads, and the metric key it files a log under
EngineLogs(engine) ==
  IF engine = "worker" THEN WorkerLogs(logs[1])
  ELSE IF engine = "service" THEN get_user_data_as_dataframe(logs[1])
  ELSE logs[1]

KeyOf(engine, l) == IF engine = "worker" THEN l.domain ELSE domain_metric(l)

\* the points the user logged for a cell <<date, key>> of an engine's table
PointsOf(engine, c) ==
  {l \in EngineLogs(engine) : l.date = c[1] /\ KeyOf(engine, l) = c[2]}

\* the dates on which the user logged a value for the key
LoggedDates(engine, k) ==
  {l.date : l \in {m \in EngineLogs(engine) : KeyOf(engine, m) = k}}

MinOverlap(engine) ==
  IF engine = "service" THEN MinOverlapService
  ELSE IF engine = "worker" THEN MinOverlapWorker ELSE MinOverlapScript

RecordKeys(engine, rec) ==
  IF engine = "worker" THEN <<rec.d1, rec.d2>> ELSE <<rec.metric1, rec.metric2>>

\* C6: a correlation record is emitted for a pair of metrics only if both
\* metrics have an actually logged value on at least the engine's minimum
\* number of dates (3 for the script and the worker, 5 for the service).
C6_RecordsHaveMinimumOverlap ==
  \A i \in DOMAIN analysis.records :
    LET ks == RecordKeys(analysis.engine, analysis.records[i])
    IN Cardinality(LoggedDates(analysis.engine, ks[1])
                   \cap LoggedDates(analysis.engine, ks[2]))
         >= MinOverlap(analysis.engine)

\* C7: a cell of the metric table that the correlator reads holds a value
\* only if the user logged that metric on that date: no value is carried
\* forward and no 0 is filled in.
C7_CellsAreLogged ==
  \A c \in DOMAIN analysis.table.cells : PointsOf(analysis.engine, c) # {}

\* C8: the value that a table holds for a date and a metric key is the mean
\* of the points the user logged for them, in every engine.
C8_CellIsMeanOfPoints ==
  \A c \in DOMAIN analysis.table.cells :
    PointsOf(analysis.engine, c) # {}
      => analysis.table.cells[c] = MeanOf(PointsOf(analysis.engine, c))

\* C9: every row that an engine stores renders a record with p_value < 0.05
\* and abs(coefficient) > 0.3.
C9_RowsAreSignificantAndStrong ==
  \A i \in DOMAIN analysis.source :
    /\ P_lt(analysis.source[i].p_value, 50)
    /\ Sq_gt(analysis.source[i].correlation, 90000)

(***************************************************************************)
(* SpecSelect: select_top_correlations as a function of its argument, a    *)
(* list of at most MaxRecs correlation records of distinct metric pairs.   *)
(***************************************************************************)
MaxRecs == 4

\* the coefficients -0.8, -0.6, 0, 0.6 and 0.8
Coefficients ==
  {Corr(-1, 16, 25), Corr(-1, 9, 25), Corr(0, 0, 1), Corr(1, 9, 25),
   Corr(1, 16, 25)}

\* (coefficient, p-value in thousandths): every coefficient with p = 0.000,
\* and the two largest with p = 0.050
RecordKinds ==
  (Coefficients \X {0}) \cup ({Corr(-1, 16, 25), Corr(1, 16, 25)} \X {50})

\* the i-th record of a list: a pair of metrics of its own
RecordAt(i, c, pv) ==
  [metric1 |-> [domain |-> "other", metric |-> "a" \o ToString(i)],
   metric2 |-> [domain |-> "other", metric |-> "b" \o ToString(i)],
   correlation |-> c, p_value |-> pv, n_samples |-> MinOverlapScript]

InitSelect ==
  /\ logs = [u \in Users |-> {}]
  /\ insights = [u \in Users |-> <<>>]
  /\ sess = [p \in Procs |-> Idle]
  /\ clock = 0
  /\ lastRun = NoRun
  /\ analysis = NoAnalysis
  /\ \E n \in 0 .. MaxRecs :
       \E ks \in [1 .. n -> RecordKinds] :
         correlations = [i \in 1 .. n |-> RecordAt(i, ks[i][1], ks[i][2])]
  /\ selected = NotSelected
  /\ summaryCall = NoSummary

CallSelect ==
  /\ ~selected.called
  /\ selected' =
       [called |-> TRUE,
        positive |-> select_top_correlations(correlations, TopN).positive,
        negative |-> select_top_correlations(correlations, TopN).negative]
  /\ UNCHANGED <<logs, analysis, correlations, db, summaryCall>>

NextSelect == CallSelect

SpecSelect == InitSelect /\ [][NextSelect]_vars

\* the records of the argument that pass the significance filter
Significant == {c \in Range(correlations) : P_lt(c.p_value, 50)}

\* a returned list: at most TopN records, all of them significant records of
\* the argument, in descending order of abs(coefficient)
RankedList(list) ==
  /\ Len(list) <= TopN
  /\ Range(list) \subseteq Significant
  /\ \A i, j \in DOMAIN list : i < j => list[i] # list[j]
  /\ \A i, j \in DOMAIN list :
       i < j => ~Abs_gt(list[j].correlation, list[i].correlation)

\* C10: select_top_correlations returns for each polarity at most top_n
\* records in descending order of abs(coefficient); a significant record of
\* that polarity that is left out is no larger than any record kept; a
\* record with coefficient 0 is in neither list and no record is in both.
C10_TopNPerPolarity ==
  selected.called =>
    /\ RankedList(selected.positive)
    /\ RankedList(selected.negative)
    /\ \A c \in Range(selected.positive) : Positive(c.correlation)
    /\ \A c \in Range(selected.negative) : Negative(c.correlation)
    /\ \A c \in Significant, k \in Range(selected.positive) :
         Positive(c.correlation) /\ c \notin Range(selected.positive)
           => /\ ~Abs_gt(c.correlation, k.correlation)
              /\ Len(selected.positive) = TopN
    /\ \A c \in Significant, k \in Range(selected.negative) :
         Negative(c.correlation) /\ c \notin Range(selected.negative)
           => /\ ~Abs_gt(c.correlation, k.correlation)
              /\ Len(selected.negative) = TopN
    /\ Range(selected.positive) \cap Range(selected.negative) = {}

\* a call that cuts: four significant positive records, not all of the same
\* size, of which three are kept
C10_Witness ==
  /\ selected.called
  /\ Len(selected.positive) = TopN
  /\ \E c \in Significant :
       /\ Positive(c.correlation)
       /\ c \notin Range(selected.positive)
       /\ Abs_gt(selected.positive[1].correlation, c.correlation)

(***************************************************************************)
(* SpecDB: the runs against the database, one run at a time.               *)
(***************************************************************************)
\* the log sets of the users of SpecDB: no logs, two metrics that move
\* together on every date, two metrics that move against each other
Together == SeriesA(MaxDate) \cup SeriesB(1, [d \in Dates |-> Cycle(d)])

Against ==
  SeriesA(MaxDate) \cup SeriesB(1, [d \in Dates |-> MaxVal + 1 - Cycle(d)])

\* four metrics of four domains that move together on every date
Wide ==
  {Entry(d, k, Cycle(d), 1) :
     d \in Dates, k \in {ClimbingGrade, FitnessRun, LearningPages, SleepHours}}

DBLogSets == <<{}, Together, Against>>

\* who logs what: the users take the three log sets in turn
LogAssignments ==
  {[u \in Users |-> DBLogSets[((u + k) % Len(DBLogSets)) + 1]] :
     k \in DOMAIN DBLogSets}

\* a row as stored: created_at has server_default=func.now()
Stored(rows, now) ==
  [i \in DOMAIN rows |->
     [description |-> rows[i].description,
      correlation_score |-> rows[i].correlation_score, created_at |-> now]]

\* rows as a multiset of (description, score): how many times each occurs
Content(rows) ==
  LET row(i) == Insight(rows[i].description, rows[i].correlation_score)
  IN [r \in {row(i) : i \in DOMAIN rows} |->
        Cardinality({i \in DOMAIN rows : row(i) = r})]

NoContent == Content(<<>>)

ContentAll == [u \in DOMAIN insights |-> Content(insights[u])]

\* a DELETE that removes nothing
NoRows(u) == {}

\* a DELETE whose effect is committed at once
Autocommitted(old, deleted) ==
  LET kept(r) == r \notin deleted IN SelectSeq(old, kept)

\* db.query(CorrelationInsight).filter(user_id == u).delete(): the rows of
\* the user that the statement removes inside the transaction
DeletedRows(u) == Range(insights[u])

\* the committed rows of the user that other sessions see once the DELETE
\* has run in a session made with autocommit=False: all of them, still
VisibleAfterDelete(old, deleted) == old

\* get_correlation_insights_for_user: the committed rows of the user,
\* newest first
get_correlation_insights_for_user(u) ==
  LET newer(a, b) == a.created_at > b.created_at
  IN SortSeq(insights[u], newer)

\* a commit that loses the rows added
KeptOnly(old, deleted, added) ==
  LET kept(r) == r \notin deleted IN SelectSeq(old, kept)

\* db.commit() of a transaction that deleted `deleted` and added `added`:
\* the committed rows of the user afterwards
Committed(old, deleted, added) ==
  LET kept(r) == r \notin deleted IN SelectSeq(old, kept) \o added

\* the orders in which a query without ORDER BY may return the users of S
Orders(S) == {q \in [1 .. Cardinality(S) -> S] : Range(q) = S}

\* the faults that may strike a commit: none; "flush", an INSERT fails while
\* the session flushes, and the session rolls its transaction back before it
\* raises; "commit", the COMMIT itself fails (the connection is lost), and
\* the session is left in its 'prepared' state, in which every further
\* statement raises until rollback() or close() is called
Faults ==
  IF Cardinality(UNION {sess[p].faulted : p \in Procs}) < MaxFaults
  THEN {"none", "flush", "commit"} ELSE {"none"}

AllIdle == \A p \in Procs : sess[p].pc = "idle"

Begin(kind) ==
  [Idle EXCEPT !.kind = kind, !.txn = "active", !.before = ContentAll]

InitDB ==
  /\ logs \in LogAssignments
  /\ insights = [u \in Users |-> <<>>]
  /\ sess = [p \in Procs |-> Idle]
  /\ clock = 0
  /\ lastRun = NoRun
  /\ analysis = NoAnalysis
  /\ correlations = <<>>
  /\ selected = NotSelected
  /\ summaryCall = NoSummary

\* POST /analyze-correlations: the status that analyze_correlations answers
\* with when run_correlation_analysis has returned, or has raised
analyze_correlations(outcome) == IF outcome = "ok" THEN 200 ELSE 500

\* db.rollback(): the committed rows of the user, which the transaction that
\* is rolled back has not changed
RolledBack(old, deleted) == old

\* run_correlation_analysis(u) up to select_top_correlations; with no logs
\* fetch_user_logs raises, the handler rolls back, re-raises and closes
OnDemandBegins(u) ==
  /\ clock < MaxRuns
  /\ clock' = clock + 1
  /\ sess' = [sess EXCEPT !["api"] =
       IF logs[u] = {}
       THEN [Begin("ondemand") EXCEPT !.user = u, !.pc = "returned",
               !.txn = "none", !.raised = {u}, !.outcome = "error",
               !.response = analyze_correlations("error")]
       ELSE [Begin("ondemand") EXCEPT !.user = u, !.pc = "delete",
               !.rows = ScriptAnalysis(logs[u]).rows]]
  /\ UNCHANGED <<logs, insights, lastRun, pure>>

\* a request while no other run is under way
StartOnDemand(u) == AllIdle /\ OnDemandBegins(u)

\* the DELETE of save_insights_to_db and of save_correlation_insights
Delete(p) ==
  /\ sess[p].pc = "delete"
  /\ sess' = [sess EXCEPT ![p].deleted = DeletedRows(sess[p].user),
                          ![p].pc = "commit"]
  /\ insights' = [insights EXCEPT ![sess[p].user] =
                    VisibleAfterDelete(@, DeletedRows(sess[p].user))]
  /\ UNCHANGED <<logs, clock, lastRun, pure>>

\* the dictionary that run_correlation_analysis returns: its counts and
\* its two lists
Results(userLogs) ==
  LET found == ScriptAnalysis(userLogs).records
      top == select_top_correlations(found, TopN)
  IN [total_correlations |-> Len(found),
      significant_correlations |-> Len(top.positive) + Len(top.negative),
      positive_correlations |-> top.positive,
      negative_correlations |-> top.negative]

\* the counts in the answer of analyze_correlations
ResponseBody(results) ==
  [significant_correlations |-> results.significant_correlations,
   insights_generated |-> Len(results.positive_correlations)
                            + Len(results.negative_correlations)]

\* the db.add calls and db.commit() of save_insights_to_db, and the rest of
\* run_correlation_analysis: return, or rollback and re-raise; then close
CommitOnDemand ==
  /\ sess["api"].pc = "commit"
  /\ \E fault \in Faults :
       LET s == sess["api"]
       IN IF fault = "none"
          THEN /\ insights' = [insights EXCEPT ![s.user] =
                    Committed(@, s.deleted, Stored(s.rows, clock))]
               /\ sess' = [sess EXCEPT !["api"].pc = "returned",
                             !["api"].deleted = {}, !["api"].txn = "none",
                             !["api"].done = {s.user},
                             !["api"].outcome = "ok",
                             !["api"].response = analyze_correlations("ok"),
                             !["api"].body =
                               ResponseBody(Results(logs[s.user]))]
          ELSE /\ insights' = [insights EXCEPT ![s.user] =
                    RolledBack(@, s.deleted)]
               /\ sess' = [sess EXCEPT !["api"].pc = "returned",
                             !["api"].deleted = {}, !["api"].txn = "none",
                             !["api"].faulted = {s.user},
                             !["api"].raised = {s.user},
                             !["api"].outcome = "error",
                             !["api"].response =
                               analyze_correlations("error")]
  /\ UNCHANGED <<logs, clock, lastRun, pure>>

\* the DELETE of save_insights_to_db raises: run_correlation_analysis rolls
\* back, re-raises and closes
DeleteFailsOnDemand ==
  /\ sess["api"].pc = "delete"
  /\ Faults # {"none"}
  /\ insights' = [insights EXCEPT ![sess["api"].user] = RolledBack(@, {})]
  /\ sess' = [sess EXCEPT !["api"].pc = "returned", !["api"].txn = "none",
                !["api"].faulted = {sess["api"].user},
                !["api"].raised = {sess["api"].user},
                !["api"].outcome = "error",
                !["api"].response = analyze_correlations("error")]
  /\ UNCHANGED <<logs, clock, lastRun, pure>>

\* run_weekly_correlation_analysis up to "users = self.db.query(User).all()"
WeeklyBegins ==
  /\ clock < MaxRuns
  /\ clock' = clock + 1
  /\ \E order \in Orders(DOMAIN logs) :
       sess' = [sess EXCEPT !["job"] =
         [Begin("weekly") EXCEPT !.order = order, !.queue = order,
            !.pc = "next"]]
  /\ UNCHANGED <<logs, insights, lastRun, pure>>

\* the job of the scheduler while no other run is under way
StartWeekly == AllIdle /\ WeeklyBegins

\* whether the exception of a user may leave the loop of
\* run_weekly_analysis: its handler reads user.id, which a commit earlier in
\* the run has expired, and the reload is one more statement that raises
Escapes(s) == IF s.done # {} THEN {FALSE, TRUE} ELSE {FALSE}

\* one turn of the loop of run_weekly_analysis up to the DELETE: in a
\* session left 'prepared' the next statement raises, and the loop goes on
\* unless the exception escapes; after the last user, "finally: db.close()"
WeeklyNext ==
  /\ sess["job"].pc = "next"
  /\ sess["job"].kind = "weekly"
  /\ LET s == sess["job"]
     IN \E escapes \in Escapes(s) :
        sess' = [sess EXCEPT !["job"] =
          IF s.queue = <<>>
          THEN [s EXCEPT !.pc = "returned", !.txn = "none", !.deleted = {},
                         !.rows = <<>>, !.user = 0, !.outcome = "ok"]
          ELSE IF s.txn = "prepared"
          THEN IF escapes
               THEN [s EXCEPT !.queue = Tail(@), !.user = Head(s.queue),
                              !.raised = @ \cup {Head(s.queue)},
                              !.pc = "returned", !.txn = "none",
                              !.deleted = {}, !.rows = <<>>,
                              !.outcome = "error"]
               ELSE [s EXCEPT !.queue = Tail(@), !.user = Head(s.queue),
                              !.raised = @ \cup {Head(s.queue)}]
          ELSE [s EXCEPT !.queue = Tail(@), !.user = Head(s.queue),
                         !.txn = "active", !.pc = "delete",
                         !.rows = ServiceAnalysis(logs[Head(s.queue)]).rows]]
  /\ UNCHANGED <<logs, insights, clock, lastRun, pure>>

\* the rows of the user among the pending DELETEs of earlier turns
PendingOf(carried, u) == UNION {e[2] : e \in {c \in carried : c[1] = u}}

\* pending DELETEs that a failure leaves in the session
StillPending(fault, pending) == pending

\* what a failed db.commit() leaves pending in the session: a failure of
\* the flush makes the session roll back, and nothing is left; after a
\* failure of the COMMIT the transaction is still there
PendingAfterFault(fault, pending) == IF fault = "flush" THEN {} ELSE pending

\* the db.add calls and db.commit() of save_correlation_insights, and the
\* "except Exception: continue" of run_weekly_analysis, which does not roll
\* back: a commit makes every pending change of the session permanent
CommitWeekly ==
  /\ sess["job"].pc = "commit"
  /\ \E fault \in Faults :
       LET s == sess["job"]
       IN IF fault = "none"
          THEN /\ insights' =
                    [u \in DOMAIN insights |->
                       IF u = s.user
                       THEN Committed(insights[u], s.deleted,
                                      Stored(s.rows, clock))
                       ELSE Committed(insights[u], PendingOf(s.carried, u),
                                      <<>>)]
               /\ sess' = [sess EXCEPT !["job"].pc = "next",
                             !["job"].deleted = {}, !["job"].rows = <<>>,
                             !["job"].txn = "none",
                             !["job"].carried = {},
                             !["job"].done = @ \cup {s.user}]
          ELSE /\ insights' = insights
               /\ sess' = [sess EXCEPT !["job"].pc = "next",
                             !["job"].deleted =
                               IF fault = "flush" THEN {} ELSE @,
                             !["job"].rows =
                               IF fault = "flush" THEN <<>> ELSE @,
                             !["job"].txn =
                               IF fault = "flush" THEN "none" ELSE "prepared",
                             !["job"].carried =
                               PendingAfterFault(fault,
                                 @ \cup {<<s.user, s.deleted>>}),
                             !["job"].faulted = @ \cup {s.user},
                             !["job"].raised = @ \cup {s.user}]
  /\ UNCHANGED <<logs, clock, lastRun, pure>>

\* run_once up to "user_ids = list({u for u, _ in users_dates})"
StartWorker ==
  /\ AllIdle
  /\ clock < MaxRuns
  /\ clock' = clock + 1
  /\ \E order \in Orders({u \in Users : logs[u] # {}}) :
       sess' = [sess EXCEPT !["job"] =
         [Begin("worker") EXCEPT !.order = order, !.queue = order,
            !.pc = "next"]]
  /\ UNCHANGED <<logs, insights, lastRun, pure>>

\* "journals = [l.notes for l in logs if l.domain.value == "reflection" and
\* l.notes]": without a reflection log the summarization is skipped; with
\* one, its notes may be empty, or the call returns, or it raises
SummaryOutcomes(userLogs) ==
  IF \E l \in userLogs : l.domain = "reflection"
  THEN {"skipped", "success", "exception"} ELSE {"skipped"}

\* a summarization whose exception nobody catches
Uncaught(outcome) == outcome = "exception"

\* "try: summary = asyncio.run(generate_summary(summary_text))
\*  except Exception: summary = None": no outcome leaves the turn
SummaryEscapes(outcome) == FALSE

\* one turn of the loop of run_once: the rows of the user are added and
\* committed, nothing is deleted; an exception leaves the loop through
\* "finally: db.close()".  After the last user, db.close().
WorkerNext ==
  /\ sess["job"].pc = "next"
  /\ sess["job"].kind = "worker"
  /\ LET s == sess["job"]
     IN IF s.queue = <<>>
        THEN /\ insights' = insights
             /\ sess' = [sess EXCEPT !["job"].pc = "returned",
                           !["job"].txn = "none", !["job"].user = 0,
                           !["job"].outcome = "ok"]
        ELSE LET u == Head(s.queue)
             IN \E last \in LastRowChoices(WorkerLogs(logs[u])),
                   domains \in DomainOrders(WorkerLogs(logs[u])),
                   outcome \in SummaryOutcomes(WorkerLogs(logs[u])),
                   fault \in Faults :
                  IF SummaryEscapes(outcome)
                  THEN /\ insights' = insights
                       /\ sess' = [sess EXCEPT !["job"].queue = Tail(@),
                                     !["job"].user = u,
                                     !["job"].pc = "returned",
                                     !["job"].txn = "none",
                                     !["job"].summary = @ \cup {<<u, outcome>>},
                                     !["job"].raised = @ \cup {u},
                                     !["job"].outcome = "error"]
                  ELSE IF fault = "none"
                  THEN /\ insights' = [insights EXCEPT ![u] =
                            Committed(@, {},
                              Stored(WorkerAnalysis(logs[u], last, domains).rows,
                                     clock))]
                       /\ sess' = [sess EXCEPT !["job"].queue = Tail(@),
                                     !["job"].user = u,
                                     !["job"].summary = @ \cup {<<u, outcome>>},
                                     !["job"].done = @ \cup {u}]
                  ELSE /\ insights' = insights
                       /\ sess' = [sess EXCEPT !["job"].queue = Tail(@),
                                     !["job"].user = u,
                                     !["job"].pc = "returned",
                                     !["job"].txn = "none",
                                     !["job"].summary = @ \cup {<<u, outcome>>},
                                     !["job"].faulted = @ \cup {u},
                                     !["job"].raised = @ \cup {u},
                                     !["job"].outcome = "error"]
  /\ UNCHANGED <<logs, clock, lastRun, pure>>

\* the process stops inside a run: the database rolls back the transaction
\* of the lost connection
Crash(p) ==
  /\ sess[p].pc \in {"delete", "commit", "next"}
  /\ sess' = [sess EXCEPT ![p].pc = "returned", ![p].txn = "none",
                          ![p].deleted = {}, ![p].outcome = "crashed"]
  /\ UNCHANGED <<logs, insights, clock, lastRun, pure>>

\* the run is over: the caller has its result, or its exception
Return(p) ==
  /\ sess[p].pc = "returned"
  /\ lastRun' = [kind |-> sess[p].kind,
                 clean |-> sess[p].outcome = "ok" /\ sess[p].raised = {},
                 after |-> ContentAll]
  /\ sess' = [sess EXCEPT ![p] = Idle]
  /\ UNCHANGED <<logs, insights, clock, pure>>

NextDB ==
  \/ \E u \in Users : StartOnDemand(u)
  \/ \E p \in Procs : Delete(p)
  \/ CommitOnDemand
  \/ DeleteFailsOnDemand
  \/ StartWeekly
  \/ WeeklyNext
  \/ CommitWeekly
  \/ StartWorker
  \/ WorkerNext
  \/ \E p \in Procs : Crash(p)
  \/ \E p \in Procs : Return(p)

SpecDB == InitDB /\ [][NextDB]_vars

(***************************************************************************)
(* The properties of the runs against the database.                        *)
(***************************************************************************)
\* the rows of the user as a reader gets them, without created_at
View(u) == Content(get_correlation_insights_for_user(u))

Saving(p) == sess[p].kind \in {"ondemand", "weekly"}

\* the users that the batch of the job enumerated after position i
After(i) == {sess["job"].order[j] : j \in (i + 1) .. Len(sess["job"].order)}

BatchReturned ==
  /\ sess["job"].pc = "returned"
  /\ sess["job"].outcome # "crashed"

\* C1: after run_correlation_analysis(user) has returned successfully, the
\* rows stored for the user are exactly the insights that the run computed,
\* one row per selected positive and negative record, each once, and no row
\* of an earlier run remains
C1_OnDemandReplaces ==
  LET s == sess["api"]
  IN (s.pc = "returned" /\ s.outcome = "ok") =>
       LET a == ScriptAnalysis(logs[s.user])
           top == select_top_correlations(a.records, TopN)
       IN /\ Content(insights[s.user]) = Content(a.rows)
          /\ Len(insights[s.user]) = Len(top.positive) + Len(top.negative)
          /\ \A r \in Range(insights[s.user]) : r.created_at = clock

\* an on-demand run has returned successfully for a user who had rows of an
\* earlier run, other than the rows that this run computed
C1_Witness ==
  LET s == sess["api"]
  IN /\ s.pc = "returned"
     /\ s.outcome = "ok"
     /\ s.before[s.user] # NoContent
     /\ s.before[s.user] # Content(s.rows)
     /\ s.rows # <<>>

\* C2: a batch run that follows a run of the same entry point, both without
\* an exception and over the same logs, leaves every user with the rows
\* that the first run left: same descriptions, same scores, same count
C2_BatchIdempotent ==
  ( /\ BatchReturned
    /\ sess["job"].raised = {}
    /\ lastRun.kind = sess["job"].kind
    /\ lastRun.clean ) => ContentAll = lastRun.after

\* C3: when a batch run is over, every user enumerated after a user whose
\* processing raised has been processed and has their rows written
C3_BatchContinues ==
  BatchReturned =>
    \A i \in DOMAIN sess["job"].order :
      sess["job"].order[i] \in sess["job"].faulted =>
        \A u \in After(i) \ sess["job"].faulted : u \in sess["job"].done

\* C4: when a weekly run is over in which the commit failed for user A, the
\* rows of A are the rows A had before the run, and every user enumerated
\* after A whose own commit did not fail has their replacement committed
C4_FailedCommitIsolated ==
  (BatchReturned /\ sess["job"].kind = "weekly") =>
    \A i \in DOMAIN sess["job"].order :
      LET A == sess["job"].order[i]
      IN A \in sess["job"].faulted =>
           /\ Content(insights[A]) = sess["job"].before[A]
           /\ \A u \in After(i) \ sess["job"].faulted :
                /\ u \in sess["job"].done
                /\ Content(insights[u]) =
                     Content(ServiceAnalysis(logs[u]).rows)

\* C5: in every step taken while save_insights_to_db or
\* save_correlation_insights is replacing the rows of a user, a reader of
\* that user's rows gets the complete old set before the step, and after it
\* the complete old set or the complete new set; after a step in which the
\* process stops, the old set
C5_ReaderSeesOldOrNew ==
  [][\A p \in Procs :
       (Saving(p) /\ sess[p].pc \in {"delete", "commit"}) =>
         LET u == sess[p].user
         IN /\ View(u) = sess[p].before[u]
            /\ View(u)' \in {sess[p].before[u], Content(sess[p].rows)}
            /\ sess'[p].outcome = "crashed" => View(u)' = sess[p].before[u]
            /\ \A r \in Range(insights'[u]) \ Range(insights[u]) :
                 r.created_at = clock]_vars

\* the DELETE of a save has run on a user who has rows, the inserts are
\* not committed yet, and the reader still gets the old rows
C5_Witness ==
  \E p \in Procs :
    /\ Saving(p)
    /\ sess[p].pc = "commit"
    /\ sess[p].deleted # {}
    /\ sess[p].rows # <<>>
    /\ Content(sess[p].rows) # sess[p].before[sess[p].user]
    /\ View(sess[p].user) = sess[p].before[sess[p].user]

(***************************************************************************)
(* SpecDBWide: the runs against the database when user 1 logs four metrics *)
(* and the other users log nothing.                                        *)
(***************************************************************************)
InitDBWide ==
  /\ logs = [u \in Users |-> IF u = 1 THEN Wide ELSE {}]
  /\ insights = [u \in Users |-> <<>>]
  /\ sess = [p \in Procs |-> Idle]
  /\ clock = 0
  /\ lastRun = NoRun
  /\ analysis = NoAnalysis
  /\ correlations = <<>>
  /\ selected = NotSelected
  /\ summaryCall = NoSummary

SpecDBWide == InitDBWide /\ [][NextDB]_vars

\* the rows stored for a user with a positive, and with a negative, score
PositiveRows(u) ==
  {i \in DOMAIN insights[u] : Positive(insights[u][i].correlation_score)}

NegativeRows(u) ==
  {i \in DOMAIN insights[u] : Negative(insights[u][i].correlation_score)}

\* C11: a user whose analysis a run has completed has at most 3 stored rows
\* with a positive score and at most 3 with a negative score
C11_AtMostThreePerPolarity ==
  \A p \in Procs : \A u \in sess[p].done :
    /\ Cardinality(PositiveRows(u)) <= TopN
    /\ Cardinality(NegativeRows(u)) <= TopN

(***************************************************************************)
(* SpecWide: the pipelines on a user with up to four metrics, two of them  *)
(* of one domain.  Every metric is absent or follows one of four shapes.   *)
(***************************************************************************)
WideMetrics == {FitnessRun, LearningPages, SleepHours, SleepQuality}

Shapes == {"none", "up", "down", "flat", "late", "step", "lateflat"}

LateDates == (MaxDate - MinOverlapScript + 1) .. MaxDate

\* the logs of metric k under a shape: "up" cycles through the values on
\* every date, "down" mirrors it, "flat" is constant, "late" is "up" on the
\* last MinOverlapScript dates only, "step" is 1 before those dates and 2 on
\* them, "lateflat" is constant on those dates and absent before
Shaped(k, shape) ==
  CASE shape = "none" -> {}
    [] shape = "up" -> {Entry(d, k, Cycle(d), 1) : d \in Dates}
    [] shape = "down" -> {Entry(d, k, MaxVal + 1 - Cycle(d), 1) : d \in Dates}
    [] shape = "flat" -> {Entry(d, k, 1, 1) : d \in Dates}
    [] shape = "late" -> {Entry(d, k, Cycle(d), 1) : d \in LateDates}
    [] shape = "step" ->
         {Entry(d, k, IF d \in LateDates THEN 2 ELSE 1, 1) : d \in Dates}
    [] shape = "lateflat" -> {Entry(d, k, 1, 1) : d \in LateDates}

\* the second metric of the sleep domain is logged on the late dates only
ShapesOf(k) ==
  IF k = SleepQuality THEN {"none", "late", "lateflat"} ELSE Shapes

InitWide ==
  /\ \E shape \in {f \in [WideMetrics -> Shapes] :
                     \A k \in WideMetrics : f[k] \in ShapesOf(k)} :
       logs = [u \in Users |->
                 IF u = 1 THEN UNION {Shaped(k, shape[k]) : k \in WideMetrics}
                 ELSE {}]
  /\ insights = [u \in Users |-> <<>>]
  /\ sess = [p \in Procs |-> Idle]
  /\ clock = 0
  /\ lastRun = NoRun
  /\ analysis = NoAnalysis
  /\ correlations = <<>>
  /\ selected = NotSelected
  /\ summaryCall = NoSummary

SpecWide == InitWide /\ [][NextCorr]_vars

\* the two metric keys of the i-th record of the run, as a set
PairOf(i) ==
  LET ks == RecordKeys(analysis.engine, analysis.records[i])
  IN {ks[1], ks[2]}

\* C12: the records of one run pair two distinct metric keys each, and no
\* two of them pair the same two keys, in either order
C12_OneRecordPerPair ==
  /\ \A i \in DOMAIN analysis.records : Cardinality(PairOf(i)) = 2
  /\ \A i, j \in DOMAIN analysis.records : i # j => PairOf(i) # PairOf(j)

\* a run over four metrics that emitted a record for each of the six pairs
C12_Witness ==
  /\ analysis.engine = "script"
  /\ Len(analysis.table.columns) = 4
  /\ Len(analysis.records) = 6

\* every point logged for the key on the dates has one and the same value
ConstantOn(engine, k, dates) ==
  Cardinality({l.value : l \in UNION {PointsOf(engine, <<d, k>>) : d \in dates}})
    <= 1

\* C13: no record is emitted for a pair of which one metric is constant over
\* the dates on which both were logged, and no row that is stored renders a
\* coefficient or a p-value that is not a number
C13_NoRecordForConstantMetric ==
  /\ \A i \in DOMAIN analysis.records :
       LET ks == RecordKeys(analysis.engine, analysis.records[i])
           shared == LoggedDates(analysis.engine, ks[1])
                       \cap LoggedDates(analysis.engine, ks[2])
       IN /\ ~ConstantOn(analysis.engine, ks[1], shared)
          /\ ~ConstantOn(analysis.engine, ks[2], shared)
  /\ \A i \in DOMAIN analysis.source :
       /\ ~isnan(analysis.source[i].correlation)
       /\ analysis.source[i].p_value # PNaN

(***************************************************************************)
(* SpecOrder: run_correlation_analysis on the log rows as a list, in the   *)
(* order in which the query of fetch_user_logs returns them.               *)
(***************************************************************************)
\* the orders of the rows of S that the model draws: the rotations of one
\* listing of S, and that listing reversed
RowOrders(S) ==
  LET q == SetToSeq(S)
      n == Len(q)
  IN {[i \in 1 .. n |-> q[((i + k - 1) % n) + 1]] : k \in 0 .. n - 1}
       \cup {[i \in 1 .. n |-> q[n + 1 - i]]}

\* the keys of the rows in the order of their first row
FirstSeenKeys(rows) ==
  LET keys == {domain_metric(rows[i]) : i \in DOMAIN rows}
      first(k) == CHOOSE i \in DOMAIN rows :
                    /\ domain_metric(rows[i]) = k
                    /\ \A j \in 1 .. i - 1 : domain_metric(rows[j]) # k
      pos(k) == Cardinality({j \in keys : first(j) < first(k)}) + 1
  IN [i \in 1 .. Cardinality(keys) |-> CHOOSE k \in keys : pos(k) = i]

\* the columns of the pivot table of a list of rows: pandas sorts them
PivotColumns(rows) == SortedKeys({domain_metric(rows[i]) : i \in DOMAIN rows})

\* the mean of the values of the rows of one cell, summed in row order
MeanOfRows(rows, d, k) ==
  LET at == SelectSeq(rows, LAMBDA l : l.date = d /\ domain_metric(l) = k)
  IN (Scale * SumSeq([i \in DOMAIN at |-> at[i].value])) \div Len(at)

\* pd.DataFrame(data) of fetch_user_logs and the pivot_table of
\* group_logs_by_domain_metric, on the rows in the order they came in
pivot_table_rows(rows) ==
  LET cellsOf == {<<rows[i].date, domain_metric(rows[i])>> : i \in DOMAIN rows}
  IN Table({rows[i].date : i \in DOMAIN rows}, PivotColumns(rows),
           [c \in cellsOf |-> MeanOfRows(rows, c[1], c[2])])

\* run_correlation_analysis up to select_top_correlations, on a list of rows
ScriptAnalysisRows(rows) ==
  LET pivoted_df == pivot_table_rows(rows)
      found == calculate_correlations(pivoted_df)
      top == select_top_correlations(found, TopN)
      chosen == top.positive \o top.negative
  IN [engine |-> "script", table |-> pivoted_df, records |-> found,
      rows |-> ScriptInsights(top),
      source |-> [i \in DOMAIN chosen |->
                    Source(chosen[i].correlation, chosen[i].p_value,
                           chosen[i].n_samples)]]

ApplyScriptRows ==
  /\ analysis.engine = "none"
  /\ logs[1] # {}
  /\ \E rows \in RowOrders(logs[1]) : analysis' = ScriptAnalysisRows(rows)
  /\ UNCHANGED <<logs, correlations, selected, db, summaryCall>>

NextOrder == ApplyScriptRows

SpecOrder == InitWide /\ [][NextOrder]_vars

C15_FailureRollsBack ==
  LET s == sess["api"]
  IN (s.pc = "returned" /\ s.outcome = "error") =>
       /\ Content(insights[s.user]) = s.before[s.user]
       /\ s.response \in 500 .. 599

\* the commit of an on-demand run has failed, after its DELETE, for a user
\* who had rows stored
C15_Witness ==
  LET s == sess["api"]
  IN /\ s.pc = "returned"
     /\ s.outcome = "error"
     /\ s.faulted = {s.user}
     /\ s.rows # <<>>
     /\ s.before[s.user] # NoContent
     /\ Content(insights[s.user]) = s.before[s.user]

\* C17: when the user has no log, POST /analyze-correlations answers with a
\* 4xx status
C17_NoDataIsClientError ==
  LET s == sess["api"]
  IN (s.pc = "returned" /\ s.kind = "ondemand" /\ logs[s.user] = {}) =>
       s.response \in 400 .. 499

\* the rows that the current run has stored for the user
NewRows(u) ==
  SelectSeq(insights[u], LAMBDA r : r.created_at = clock)

\* what a batch run of the kind may compute for the user, as multisets
BatchRows(kind, u) ==
  IF kind = "weekly" THEN {Content(ServiceAnalysis(logs[u]).rows)}
  ELSE {Content(WorkerAnalysis(logs[u], last, domains).rows) :
          last \in LastRowChoices(WorkerLogs(logs[u])),
          domains \in DomainOrders(WorkerLogs(logs[u]))}

\* a batch run is over in which no commit failed
BatchOver ==
  /\ sess["job"].pc = "returned"
  /\ sess["job"].outcome # "crashed"
  /\ sess["job"].faulted = {}

MaxPosts == 3

Optional == {<<>>} \cup {<<v>> : v \in Values}

\* the next free id for a log of the key on the date
NextId(userLogs, d, k) ==
  Cardinality({l \in userLogs : l.date = d /\ domain_metric(l) = k}) + 1

\* create_journal_entry: "value = payload.mood_score if payload.mood_score
\* is not None else 0.0"
create_journal_entry(userLogs, d, mood_score) ==
  [Entry(d, ReflectionJournal, IF mood_score = <<>> THEN 0 ELSE mood_score[1],
         NextId(userLogs, d, ReflectionJournal))
     EXCEPT !.given = mood_score # <<>>]

\* create_log: "value=payload.value or 0.0"
create_log(userLogs, d, value) ==
  [Entry(d, OtherLegacy, IF value = <<>> THEN 0 ELSE value[1],
         NextId(userLogs, d, OtherLegacy))
     EXCEPT !.given = value # <<>>]

Posts == {l \in logs[1] : domain_metric(l) \in {ReflectionJournal, OtherLegacy}}

InitJournal ==
  /\ logs = [u \in Users |-> IF u = 1 THEN SeriesA(MaxDate) ELSE {}]
  /\ insights = [u \in Users |-> <<>>]
  /\ sess = [p \in Procs |-> Idle]
  /\ clock = 0
  /\ lastRun = NoRun
  /\ analysis = NoAnalysis
  /\ correlations = <<>>
  /\ selected = NotSelected
  /\ summaryCall = NoSummary

CreateJournalEntry ==
  /\ analysis.engine = "none"
  /\ Cardinality(Posts) < MaxPosts
  /\ \E d \in Dates, mood_score \in Optional :
       /\ NextId(logs[1], d, ReflectionJournal) <= MaxDup
       /\ logs' = [logs EXCEPT ![1] =
                     @ \cup {create_journal_entry(@, d, mood_score)}]
  /\ UNCHANGED <<analysis, correlations, selected, db, summaryCall>>

CreateLegacyLog ==
  /\ analysis.engine = "none"
  /\ Cardinality(Posts) < MaxPosts
  /\ \E d \in Dates, value \in Optional :
       /\ NextId(logs[1], d, OtherLegacy) <= MaxDup
       /\ logs' = [logs EXCEPT ![1] = @ \cup {create_log(@, d, value)}]
  /\ UNCHANGED <<analysis, correlations, selected, db, summaryCall>>

NextJournal == CreateJournalEntry \/ CreateLegacyLog \/ NextCorr

SpecJournal == InitJournal /\ [][NextJournal]_vars

\* the logs whose request carried a value
Given(userLogs) == {l \in userLogs : l.given}

\* the metric tables that the engine may build from the logs
TablesOf(engine, userLogs) ==
  IF engine = "script" THEN {ScriptAnalysis(userLogs).table}
  ELSE IF engine = "service" THEN {ServiceAnalysis(userLogs).table}
  ELSE {WorkerAnalysis(userLogs, last, domains).table :
          last \in LastRowChoices(WorkerLogs(userLogs)),
          domains \in DomainOrders(WorkerLogs(userLogs))}

\* C18: the metric table that the correlator reads is a table of the logs
\* whose request carried a value: a log created without a value adds
\* nothing to it
C18_NotesOnlyPointsAreExcluded ==
  analysis.engine # "none" =>
    analysis.table \in TablesOf(analysis.engine, Given(logs[1]))

(***************************************************************************)
(* SpecText: the sentences.  The argument is a list of at most one record  *)
(* of a pair of metrics of one domain and at most one of a pair of two     *)
(* domains; the list is selected and rendered as save_insights_to_db       *)
(* renders it, or described as compute_correlations describes it.          *)
(***************************************************************************)
\* (r * r as a fraction, p-value in thousandths, number of dates): the
\* coefficients 1.0, 0.8, 0.7 and 0.6 over 12 dates, 0.5 and 0.4 over 30,
\* 0.25 over 100, and 0.2 over 30, which is not significant
Magnitudes ==
  {<<1, 1, 0, 12>>, <<16, 25, 0, 12>>, <<49, 100, 10, 12>>,
   <<9, 25, 10, 12>>, <<1, 4, 0, 30>>, <<4, 25, 10, 30>>,
   <<1, 16, 10, 100>>, <<1, 25, 50, 30>>}

\* a record of calculate_correlations for the pair of metrics
TextRecord(metric1, metric2, s, m) ==
  [metric1 |-> metric1, metric2 |-> metric2, correlation |-> Corr(s, m[1], m[2]),
   p_value |-> m[3], n_samples |-> m[4]]

\* no record of the pair, or one of any sign and magnitude
TextRecords(metric1, metric2) ==
  {<<>>} \cup {<<TextRecord(metric1, metric2, s, m)>> :
                 s \in {-1, 1}, m \in Magnitudes}

InitText ==
  /\ logs = [u \in Users |-> {}]
  /\ insights = [u \in Users |-> <<>>]
  /\ sess = [p \in Procs |-> Idle]
  /\ clock = 0
  /\ lastRun = NoRun
  /\ analysis = NoAnalysis
  /\ \E cross \in TextRecords(FitnessRun, SleepHours),
        same \in TextRecords(SleepHours, SleepQuality) :
       correlations = cross \o same
  /\ selected = NotSelected
  /\ summaryCall = NoSummary

\* the loops of save_insights_to_db over the selected records
RenderSelected ==
  /\ selected.called
  /\ insights[1] = <<>>
  /\ insights' = [insights EXCEPT ![1] = Stored(ScriptInsights(selected), clock)]
  /\ UNCHANGED <<logs, analysis, correlations, selected, sess, clock, lastRun,
               summaryCall>>

\* the record that compute_correlations appends for a coefficient: one
\* that passes its filter
ServiceRecords(c) ==
  IF P_lt(c.p_value, 50) /\ Sq_gt(c.correlation, 90000)
  THEN << [metric1 |-> c.metric1, metric2 |-> c.metric2,
           correlation_coefficient |-> c.correlation, p_value |-> c.p_value,
           data_points |-> c.n_samples,
           description |->
             generate_correlation_description(c.metric1, c.metric2,
                                              c.correlation)] >>
  ELSE <<>>

\* compute_correlations and save_correlation_insights over the same
\* coefficients
DescribeAll ==
  /\ ~selected.called
  /\ insights[1] = <<>>
  /\ insights' =
       [insights EXCEPT ![1] =
          Stored(ServiceInsights(Flatten([i \in DOMAIN correlations |->
                                            ServiceRecords(correlations[i])])),
                 clock)]
  /\ UNCHANGED <<logs, analysis, correlations, selected, sess, clock, lastRun,
               summaryCall>>

NextText == CallSelect \/ RenderSelected \/ DescribeAll

SpecText == InitText /\ [][NextText]_vars

\* the rows of sentences about two metrics of one domain, of two domains
SameDomainRows ==
  {i \in DOMAIN insights[1] :
     insights[1][i].description.metric1.domain
       = insights[1][i].description.metric2.domain}

CrossDomainRows == DOMAIN insights[1] \ SameDomainRows

\* the words that close the sentence of generate_insight_text
Readout(c, noun) ==
  " ({pct}% " \o (IF Positive(c) THEN "" ELSE "inverse ") \o noun \o ")"

\* C19: the sentence about two metrics of one domain names the band of
\* abs(r), strong above 0.7, moderate above 0.5 and weak otherwise, and the
\* direction, positive for r > 0 and negative otherwise
C19_SameDomainNamesStrength ==
  \A i \in SameDomainRows :
    LET row == insights[1][i]
        r == row.correlation_score
    IN IF row.description.format = "script"
       THEN row.description.template
              = "{M1} and {m2} show a " \o Strength(r) \o " " \o Direction(r)
                  \o " correlation" \o Readout(r, "relationship")
       ELSE /\ row.description.strength = Strength(r)
            /\ row.description.direction = Direction(r)

\* C20: the sentence of generate_insight_text about two metrics of two
\* domains says "associated with better" when r > 0 and "associated with
\* worse" when r < 0
C20_CrossDomainBetterOrWorse ==
  \A i \in CrossDomainRows :
    LET row == insights[1][i]
        r == row.correlation_score
    IN row.description.format = "script" =>
         row.description.template
           = "Higher {m1} in {d1} is associated with "
               \o (IF Positive(r) THEN "better" ELSE "worse")
               \o " {m2} in {d2}" \o Readout(r, "correlation")

\* the record of the argument that a sentence is about
RecordOf(description) ==
  CHOOSE c \in Range(correlations) :
    c.metric1 = description.metric1 /\ c.metric2 = description.metric2

\* the rows of sentences of generate_insight_text
ScriptRows ==
  {i \in DOMAIN insights[1] : insights[1][i].description.format = "script"}

\* C21: every stored sentence of generate_insight_text ends with one
\* qualifier, "highly significant" when the p-value of its record is below
\* 0.01 and "significant" when it is from 0.01 up to 0.05, and no other
\* record has a sentence
C21_OneSignificanceQualifier ==
  \A i \in ScriptRows :
    LET c == RecordOf(insights[1][i].description)
        note == insights[1][i].description.note
    IN /\ P_lt(c.p_value, 50)
       /\ note = IF P_lt(c.p_value, 10) THEN " (highly significant)"
                 ELSE " (significant)"

C21_Witness ==
  /\ \E i \in ScriptRows : insights[1][i].description.note = " (significant)"
  /\ \E c \in Range(correlations) : ~P_lt(c.p_value, 50)

(***************************************************************************)
(* SpecSummary: the two summarization functions, called with a text of up  *)
(* to MaxWords words, with or without a configured API key, while the call *)
(* to the external API succeeds, fails, or answers without a choice.       *)
(***************************************************************************)
MaxWords == 22
FallbackWords == 20

CallOutcomes == {"ok", "fails", "malformed"}

\* what a summarization function hands to its caller
Returned(text) == [raised |-> FALSE, text |-> text]
Raised(exception) == [raised |-> TRUE, text |-> <<exception>>]

\* services.summarize_journal: without a key it raises before the try; an
\* exception of the call or of reading its answer is caught, and the text
\* or its first FallbackWords words are returned
summarize_journal(configured, call, words) ==
  IF ~configured THEN Raised("ValueError")
  ELSE IF call = "ok" THEN Returned(<<"content">>)
  ELSE IF words <= FallbackWords THEN Returned(<<"text", words>>)
  ELSE Returned(<<"text", FallbackWords, "...">>)

\* worker.generate_summary: without a key it returns a placeholder; it has
\* no try, so raise_for_status and the reading of the answer raise
generate_summary(configured, call, words) ==
  IF ~configured THEN Returned(<<"No API key configured; summary unavailable.">>)
  ELSE IF call = "ok" THEN Returned(<<"content">>)
  ELSE IF call = "fails" THEN Raised("HTTPError")
  ELSE Raised("KeyError")

InitSummary ==
  /\ logs = [u \in Users |-> {}]
  /\ insights = [u \in Users |-> <<>>]
  /\ sess = [p \in Procs |-> Idle]
  /\ clock = 0
  /\ lastRun = NoRun
  /\ analysis = NoAnalysis
  /\ correlations = <<>>
  /\ selected = NotSelected
  /\ summaryCall = NoSummary

SummaryCall(caller, configured, call, words, result) ==
  [caller |-> caller, configured |-> configured, call |-> call,
   words |-> words, result |-> result]

CallSummarizeJournal ==
  /\ summaryCall = NoSummary
  /\ \E configured \in BOOLEAN, call \in CallOutcomes, words \in 0 .. MaxWords :
       summaryCall' =
         SummaryCall("summarize_journal", configured, call, words,
                     summarize_journal(configured, call, words))
  /\ UNCHANGED <<logs, analysis, correlations, selected, db>>

CallGenerateSummary ==
  /\ summaryCall = NoSummary
  /\ \E configured \in BOOLEAN, call \in CallOutcomes, words \in 0 .. MaxWords :
       summaryCall' =
         SummaryCall("generate_summary", configured, call, words,
                     generate_summary(configured, call, words))
  /\ UNCHANGED <<logs, analysis, correlations, selected, db>>

NextSummary == CallSummarizeJournal \/ CallGenerateSummary

SpecSummary == InitSummary /\ [][NextSummary]_vars

\* C22: a summarization function that is called without a configured key,
\* or whose call to the external API fails, returns a text and raises
\* nothing
C22_SummaryNeverRaises ==
  (/\ summaryCall # NoSummary
   /\ ~summaryCall.configured \/ summaryCall.call # "ok") =>
    ~summaryCall.result.raised

(***************************************************************************)
(* SpecDBJournal: the runs of the worker when users 1 and 2 log a run and  *)
(* a journal entry on every date, and the other users log nothing.         *)
(***************************************************************************)
WithJournal ==
  SeriesA(MaxDate) \cup {Entry(d, ReflectionJournal, Cycle(d), 1) : d \in Dates}

InitDBJournal ==
  /\ logs = [u \in Users |-> IF u <= 2 THEN WithJournal ELSE {}]
  /\ insights = [u \in Users |-> <<>>]
  /\ sess = [p \in Procs |-> Idle]
  /\ clock = 0
  /\ lastRun = NoRun
  /\ analysis = NoAnalysis
  /\ correlations = <<>>
  /\ selected = NotSelected
  /\ summaryCall = NoSummary

\* the runs of the worker alone
NextWorkerRuns == StartWorker \/ WorkerNext \/ Crash("job") \/ Return("job")

SpecDBJournal == InitDBJournal /\ [][NextWorkerRuns]_vars

\* C23: in run_once, whatever the summarization did for a user, success,
\* exception or skipped, the rows that the run computed for the user are
\* added and committed unless the commit itself fails, and a run without a
\* failed commit goes through every user
C23_SummaryLeavesInsightsAlone ==
  sess["job"].kind = "worker" =>
    /\ \A e \in sess["job"].summary :
         e[1] \notin sess["job"].faulted =>
           /\ e[1] \in sess["job"].done
           /\ Content(NewRows(e[1])) \in BatchRows("worker", e[1])
    /\ BatchOver => \A u \in Users : logs[u] # {} => u \in sess["job"].done

\* a run is over in which the summarization raised for a user whose rows
\* are stored, and was skipped or succeeded for another
C23_Witness ==
  /\ BatchOver
  /\ sess["job"].kind = "worker"
  /\ \E u, v \in Users :
       /\ <<u, "exception">> \in sess["job"].summary
       /\ NewRows(u) # <<>>
       /\ <<v, "exception">> \notin sess["job"].summary
       /\ NewRows(v) # <<>>

(***************************************************************************)
(* SpecTies: select_top_correlations on a list of at most MaxRecs records  *)
(* of distinct metric pairs, in any order, with coefficients that tie.     *)
(***************************************************************************)
\* (coefficient, p-value in thousandths): 0.8 with p < 0.01, 0.8 with
\* 0.01 <= p < 0.05 (fewer dates), and 0.6 with p < 0.01
TieKinds == {<<Corr(1, 16, 25), 0>>, <<Corr(1, 16, 25), 10>>, <<Corr(1, 9, 25), 0>>}

InitTies ==
  /\ logs = [u \in Users |-> {}]
  /\ insights = [u \in Users |-> <<>>]
  /\ sess = [p \in Procs |-> Idle]
  /\ clock = 0
  /\ lastRun = NoRun
  /\ analysis = NoAnalysis
  /\ \E n \in 0 .. MaxRecs :
       \E ks \in [1 .. n -> TieKinds] :
         \E order \in {q \in [1 .. n -> 1 .. n] : Range(q) = 1 .. n} :
           correlations =
             [i \in 1 .. n |-> RecordAt(order[i], ks[i][1], ks[i][2])]
  /\ selected = NotSelected
  /\ summaryCall = NoSummary

SpecTies == InitTies /\ [][NextSelect]_vars

\* the place of the metric pair of a record of RecordAt in lexical order
PairRank(c) ==
  CHOOSE i \in 1 .. MaxRecs : c.metric1.metric = "a" \o ToString(i)

\* the list ranks equal abs(coefficient) by p-value, then by metric pair
TiesBroken(list) ==
  \A i, j \in DOMAIN list :
    (i < j /\ ~Abs_gt(list[i].correlation, list[j].correlation)) =>
      \/ list[i].p_value < list[j].p_value
      \/ /\ list[i].p_value = list[j].p_value
         /\ PairRank(list[i]) < PairRank(list[j])

\* C24: of two selected records of one polarity with equal abs(coefficient)
\* the one with the smaller p-value is ranked first, and with equal p-values
\* the one whose metric pair is first in lexical order
C24_TiesBrokenByPThenPair ==
  selected.called => TiesBroken(selected.positive) /\ TiesBroken(selected.negative)

(***************************************************************************)
(* SpecSession: the life of the database session in the entry points.      *)
(* Each process calls them one after the other; SessionLocal() returns a   *)
(* session or raises, and the body returns or raises.                      *)
(***************************************************************************)
EntryPoints ==
  {"run_correlation_analysis", "run_weekly_correlation_analysis", "run_once",
   "get_db"}

\* get_db calls SessionLocal() inside its try block, the others before it
OpensInsideTry(entry) == entry = "get_db"

Enter(p, entry) ==
  /\ sess[p].pc = "idle"
  /\ sess' = [sess EXCEPT ![p] = [Idle EXCEPT !.pc = "open", !.kind = entry]]
  /\ UNCHANGED <<logs, insights, clock, lastRun, pure>>

\* db = SessionLocal()
Open(p) ==
  /\ sess[p].pc = "open"
  /\ \E opened \in BOOLEAN :
       sess' = [sess EXCEPT ![p] =
         IF opened THEN [@ EXCEPT !.pc = "body", !.handle = "open"]
         ELSE IF OpensInsideTry(@.kind)
         THEN [@ EXCEPT !.pc = "finally", !.outcome = "error"]
         ELSE [@ EXCEPT !.pc = "returned", !.outcome = "error"]]
  /\ UNCHANGED <<logs, insights, clock, lastRun, pure>>

\* the body of the try block, or of the request that get_db yields to
Body(p) ==
  /\ sess[p].pc = "body"
  /\ \E outcome \in {"ok", "error"} :
       sess' = [sess EXCEPT ![p].pc = "finally", ![p].outcome = outcome]
  /\ UNCHANGED <<logs, insights, clock, lastRun, pure>>

\* "finally: db.close()": on an unbound db the statement raises
\* UnboundLocalError
Finally(p) ==
  /\ sess[p].pc = "finally"
  /\ sess' = [sess EXCEPT ![p] =
       IF @.handle = "open"
       THEN [@ EXCEPT !.pc = "returned", !.handle = "closed"]
       ELSE [@ EXCEPT !.pc = "returned", !.outcome = "UnboundLocalError"]]
  /\ UNCHANGED <<logs, insights, clock, lastRun, pure>>

NextSession ==
  \/ \E p \in Procs, entry \in EntryPoints : Enter(p, entry)
  \/ \E p \in Procs : Open(p)
  \/ \E p \in Procs : Body(p)
  \/ \E p \in Procs : Finally(p)
  \/ \E p \in Procs : Return(p)

SpecSession == InitSummary /\ [][NextSession]_vars

\* C25: when an entry point is over, by return or by exception, the session
\* it opened is closed, and it has not called close() without a session
C25_SessionClosedOnEveryPath ==
  \A p \in Procs :
    sess[p].pc = "returned" =>
      /\ sess[p].handle # "open"
      /\ sess[p].outcome # "UnboundLocalError"

(***************************************************************************)
(* SpecWeekly: run_weekly_analysis alone, on a users table of MaxBatch     *)
(* users who all have the same logs.                                       *)
(***************************************************************************)
MaxBatch == 4

BatchUsers == 1 .. MaxBatch

InitWeekly ==
  /\ logs = [u \in BatchUsers |-> Together]
  /\ insights = [u \in BatchUsers |-> <<>>]
  /\ sess = [p \in Procs |-> Idle]
  /\ clock = 0
  /\ lastRun = NoRun
  /\ analysis = NoAnalysis
  /\ correlations = <<>>
  /\ selected = NotSelected
  /\ summaryCall = NoSummary

NextWeekly ==
  \/ StartWeekly
  \/ WeeklyNext
  \/ Delete("job")
  \/ CommitWeekly
  \/ Crash("job")
  \/ Return("job")

SpecWeekly == InitWeekly /\ [][NextWeekly]_vars

\* the users whose turn of the loop has begun
Visited == Range(sess["job"].order) \ Range(sess["job"].queue)

\* C26: run_weekly_analysis returns after the turn of every user of the
\* query, each user has one turn, and a turn ends by its commit or by an
\* exception that the loop catches before the next turn begins
C26_EveryUserVisitedOnce ==
  LET s == sess["job"]
  IN /\ Len(s.order) = Cardinality(Range(s.order))
     /\ s.pc \in {"delete", "commit"} => s.user \in Visited \ (s.done \cup s.raised)
     /\ BatchReturned =>
          /\ s.outcome = "ok"
          /\ Visited = DOMAIN logs
          /\ s.done \cup s.raised = DOMAIN logs

(***************************************************************************)
(* SpecConcurrent: POST /analyze-correlations is served while the weekly   *)
(* job runs in the executor thread, each on a session of its own.  The     *)
(* database runs the transactions at READ COMMITTED, the default of        *)
(* PostgreSQL: a DELETE removes the rows committed when it runs.           *)
(***************************************************************************)
\* a request that does not wait for the job
RequestOnDemand(u) == sess["api"].pc = "idle" /\ OnDemandBegins(u)

\* the job that does not wait for a request
ScheduledWeekly == sess["job"].pc = "idle" /\ WeeklyBegins

NextConcurrent ==
  \/ \E u \in Users : RequestOnDemand(u)
  \/ ScheduledWeekly
  \/ \E p \in Procs : Delete(p)
  \/ CommitOnDemand
  \/ WeeklyNext
  \/ CommitWeekly
  \/ \E p \in Procs : Return(p)

SpecConcurrent == InitDB /\ [][NextConcurrent]_vars

\* the request has committed for a user for whom the job has committed too
BothCommitted ==
  /\ sess["api"].pc = "returned"
  /\ sess["api"].outcome = "ok"
  /\ sess["job"].kind = "weekly"
  /\ sess["api"].user \in sess["job"].done

\* C27: after the request and the weekly job have both committed for the
\* same user, the rows stored for the user are the rows of one of the two
\* runs, not rows of both
C27_OneRunWins ==
  BothCommitted =>
    LET u == sess["api"].user
    IN Content(insights[u]) \in
         {Content(sess["api"].rows), Content(ServiceAnalysis(logs[u]).rows)}

InitOnDemand ==
  /\ logs \in [Users -> {{}, Together, Against, Wide}]
  /\ insights = [u \in Users |-> <<>>]
  /\ sess = [p \in Procs |-> Idle]
  /\ clock = 0
  /\ lastRun = NoRun
  /\ analysis = NoAnalysis
  /\ correlations = <<>>
  /\ selected = NotSelected
  /\ summaryCall = NoSummary

NextOnDemand ==
  \/ \E u \in Users : StartOnDemand(u)
  \/ Delete("api")
  \/ CommitOnDemand
  \/ DeleteFailsOnDemand
  \/ Return("api")

SpecOnDemand == InitOnDemand /\ [][NextOnDemand]_vars

ReadRoutes == {"get_user_logs", "get_user_insights", "get_logs"}

\* the routes that declare current_user: User = Depends(get_current_user)
Authenticated(route) == route \in {"get_user_logs", "get_user_insights"}

\* the user whose rows the route queries: the current user, or the user_id
\* of the path of GET /logs/{user_id}
QueriedUser(route, caller, user_id) ==
  IF Authenticated(route) THEN caller ELSE user_id

\* the rows that the route returns, with their owner
RouteRows(route, owner) ==
  [owner |-> owner,
   rows |-> IF route = "get_user_insights"
            THEN Range(get_correlation_insights_for_user(owner))
            ELSE logs[owner]]

\* one request to a read route; a route with current_user is reached only
\* by a caller who is a user
CallRoute(caller, route, user_id) ==
  /\ AllIdle
  /\ Authenticated(route) => caller \in Users
  /\ sess' = [sess EXCEPT !["api"] =
       [Idle EXCEPT !.pc = "returned", !.kind = route, !.user = caller,
                    !.outcome = "ok", !.response = 200,
                    !.body = RouteRows(route,
                                       QueriedUser(route, caller, user_id))]]
  /\ UNCHANGED <<logs, insights, clock, lastRun, pure>>

NextRoutes ==
  \/ \E caller \in {0} \cup Users, route \in ReadRoutes, user_id \in Users :
       CallRoute(caller, route, user_id)
  \/ NextOnDemand

SpecRoutes == InitOnDemand /\ [][NextRoutes]_vars

\* C30: the rows that a route returns are rows of the caller
C30_OnlyOwnRows ==
  LET s == sess["api"]
  IN (s.pc = "returned" /\ s.kind \in ReadRoutes) => s.body.owner = s.user

====
